---- MODULE Spec2Model ----
(***************************************************************************)
(* A model of the postcast-rss client core: the IlPostApi object of        *)
(* core/bridge.py (credential login and caching, the recursive page        *)
(* traversal, the show cache) together with its environment (the           *)
(* credential cache file, the login endpoint, the catalog endpoint).       *)
(*                                                                         *)
(* The request handlers are coroutines on one asyncio event loop: code     *)
(* between two awaits runs atomically, so one action is the code from one  *)
(* suspension point to the next.  login() and auth_token are synchronous   *)
(* (requests.post blocks the loop), hence they run inside the action that  *)
(* evaluates them.                                                         *)
(***************************************************************************)
EXTENDS Integers, Sequences, FiniteSets, TLC

VARIABLES
    user,                 \* IlPostApi.user
    _subscription_cache,  \* IlPostApi._subscription_cache
    _podcasts,            \* IlPostApi._podcasts (the slugs it holds)
    cacheFile,            \* the file at settings.ILPOST_SUBSCRIPTION_CACHE_FILE
    cwdFile,              \* whether ./ILPOST_SUBSCRIPTION_CACHE_FILE_NAME exists
    now,                  \* datetime.now()
    server,               \* the catalog endpoint: its items and its behaviour
    pc,                   \* per request: where its coroutine is suspended
    op,                   \* per request: the operation it runs
    hits,                 \* per request: recursive_podcast_get's hits
    page,                 \* per request: page of the innermost frame
    counter,              \* per request: counter of the innermost frame
    emitted,              \* per request: the records yielded so far
    requests,             \* per request: the page requests sent so far
    error,                \* per request: the exception that ended it
    loginCalls,           \* history: network login calls made
    loginFailures,        \* history: network login calls that failed
    tokenCalls,           \* history: per request, evaluations of auth_token
    catalogFetches,       \* history: get_podcasts() runs started by podcasts
    reads,                \* history: per request, reads of podcasts started
    completedItems,       \* history: shows returned by completed get_podcasts()
    aborts,               \* history: traversals ended by an exception
    coldStart,            \* history: no credential on disk at construction
    cacheLoads,           \* history: calls of read_subscription_cache()
    loginResponse,        \* history: the last response of the login endpoint
    started,              \* the router's lifespan: "no", "yes" or "failed"
    handler,              \* per request: the route handler it runs and its arguments
    outcome,              \* per request: what the handler returned or raised
    feed,                 \* per request: PodcastFeed.episodes of the feed it builds
    rendered,             \* per request: the items of the channel to_rss() built
    episodeServer,        \* the episodes endpoint of a show
    input,                \* the argument of the function under study
    result                \* what the function under study returned or raised

vars == <<user, _subscription_cache, _podcasts, cacheFile, cwdFile, now, server,
          pc, op, hits, page, counter, emitted, requests, error,
          loginCalls, loginFailures, tokenCalls, catalogFetches, reads,
          completedItems, aborts, coldStart, cacheLoads, loginResponse,
          started, handler, outcome, feed, rendered, episodeServer, input, result>>

authVars  == <<user, _subscription_cache, cacheFile, cwdFile, loginCalls, loginFailures,
               cacheLoads, loginResponse>>
fetchVars == <<pc, op, hits, page, counter, emitted, requests, error>>
apiVars   == <<authVars, fetchVars, _podcasts, now, server, tokenCalls, catalogFetches,
               reads, completedItems, aborts, coldStart>>
routerVars == <<started, handler, outcome, feed, rendered, episodeServer>>
pureVars  == <<input, result>>

(***************************************************************************)
(* Bounds of the model.                                                    *)
(***************************************************************************)
NumProcs     == 2   \* concurrent requests
MaxTime      == 2   \* clock values 1..MaxTime
MaxHits      == 3   \* limits 0..MaxHits
MaxFullPages == 2   \* catalogs of up to this many full pages (plus slack)
MaxSlack     == 2   \* catalog sizes within this distance of a page boundary
ExtraPages   == 2   \* recursion depth explored beyond the honest page count
MaxFaultPage == 2   \* the page from which a faulty server misbehaves
MaxReads     == 3   \* reads of the show cache, all requests together
MaxTokenCalls == 3  \* auth_token evaluations in the credential runs, all requests together
MaxEpisodes  == 3   \* episodes added to one feed
NumEpisodeIds == 2  \* distinct episode ids 1..NumEpisodeIds
MaxDate      == 3   \* publish dates 1..MaxDate
MaxSlugTokens == 5  \* words and dashes in an episode slug
NumShows     == 2   \* shows 1..NumShows of a non-empty catalog
RouterSlack  == 1   \* episode counts within this distance of 0, of the feed cap and of a page

Procs == 1..NumProcs
Times == 1..MaxTime

(***************************************************************************)
(* Optional values.  Python's None for an Optional[int]/Optional[datetime] *)
(* is NoneInt; for an object it is the record NoneRec.  JSON null is       *)
(* JsonNull, and the raw end_date 0 of the API is 0.                       *)
(***************************************************************************)
NoneInt  == -1
JsonNull == -2
NoneRec  == [kind |-> "None"]

\* A request that runs no handler, and a function not yet applied.
NoHandler == [name |-> "none"]
NoOutcome == [kind |-> "none"]
NoInput   == [kind |-> "none"]
NoResult  == [kind |-> "none"]

(***************************************************************************)
(* Exceptions.  An exception is a record of its class, its message text,   *)
(* the values formatted into the message and PodcastException's second     *)
(* constructor argument.                                                   *)
(***************************************************************************)
NoExc == [type |-> "None", text |-> "", detail |-> <<>>, status_code |-> NoneInt]

Exc(type, text) ==
    [type |-> type, text |-> text, detail |-> <<>>, status_code |-> NoneInt]

\* core/exceptions.py: PodcastException(message, status_code) keeps both.
PodcastException(text, detail, status_code) ==
    [type |-> "PodcastException", text |-> text, detail |-> detail,
     status_code |-> status_code]

\* core/exceptions.py: PodcastException is a plain Exception subclass.
PodcastExceptionBases == {"PodcastException", "Exception"}

\* The classes an exception of the given class is an instance of.
Bases(type) ==
    CASE type = "FileNotFoundError" -> {"FileNotFoundError", "OSError", "Exception"}
      [] type = "PermissionError"   -> {"PermissionError", "OSError", "Exception"}
      [] type = "ValidationError"   -> {"ValidationError", "ValueError", "Exception"}
      [] type = "JSONDecodeError"   -> {"JSONDecodeError", "ValueError", "Exception"}
      [] type = "HTTPError"         -> {"HTTPError", "RequestException", "OSError", "Exception"}
      [] type = "KeyError"          -> {"KeyError", "LookupError", "Exception"}
      [] type = "PodcastException"  -> PodcastExceptionBases
      [] type = "RecursionError"    -> {"RecursionError", "RuntimeError", "Exception"}
      [] type = "TypeError"         -> {"TypeError", "Exception"}
      [] type = "IndexError"        -> {"IndexError", "LookupError", "Exception"}
      [] type = "ValueError"        -> {"ValueError", "Exception"}
      [] type = "StopAsyncIteration" -> {"StopAsyncIteration", "Exception"}
      [] type = "HTTPException"     -> {"HTTPException", "Exception"}
      [] type = "CancelledError"    -> {"CancelledError", "BaseException"}
      [] OTHER                      -> {}

IsInstance(exc, classes) == Bases(exc.type) \cap classes # {}

(***************************************************************************)
(* models/user.py: the credential record and its JSON form.                *)
(***************************************************************************)
\* EndDate: BeforeValidator(lambda v: v if v != 0 else None), then Optional.
EndDate(v) == IF v = 0 \/ v = JsonNull THEN NoneInt ELSE v

\* is_expired counting an end marker equal to the current time as passed.
subscription_is_expired_mut(sub) ==
    LET end_date == IF sub.end_date # NoneInt THEN sub.end_date ELSE sub.next_payment
    IN  end_date # NoneInt /\ end_date <= now

\* IlPostUserSubscription.is_expired
subscription_is_expired(sub) ==
    LET end_date == IF sub.end_date # NoneInt THEN sub.end_date ELSE sub.next_payment
    IN  end_date # NoneInt /\ end_date < now

\* IlPostUserMetadata.model_validate / model_validate_json on a JSON document:
\* [exc, val].
model_validate_json(doc) ==
    IF doc.kind # "object"
    THEN [exc |-> Exc("ValidationError", "validation error"), val |-> NoneRec]
    ELSE [exc |-> NoExc,
          val |-> [kind |-> "meta",
                   token |-> [secret |-> doc.token],
                   subscription |->
                       IF doc.subscription.kind = "null" THEN NoneRec
                       ELSE [kind |-> "sub",
                             end_date |-> EndDate(doc.subscription.end_date),
                             next_payment |-> doc.subscription.next_payment]]]

\* model_dump_json without dump_secret: a SecretStr is dumped masked.
model_dump_json_mut(meta) ==
    [kind |-> "object",
     token |-> "**********",
     subscription |->
         IF meta.subscription = NoneRec THEN [kind |-> "null"]
         ELSE [kind |-> "object",
               end_date |-> IF meta.subscription.end_date = NoneInt THEN JsonNull
                            ELSE meta.subscription.end_date,
               next_payment |-> meta.subscription.next_payment]]

\* IlPostUserMetadata.model_dump_json, with dump_secret serialising the token.
model_dump_json(meta) ==
    [kind |-> "object",
     token |-> meta.token.secret,
     subscription |->
         IF meta.subscription = NoneRec THEN [kind |-> "null"]
         ELSE [kind |-> "object",
               end_date |-> IF meta.subscription.end_date = NoneInt THEN JsonNull
                            ELSE meta.subscription.end_date,
               next_payment |-> meta.subscription.next_payment]]

\* The states of a file; NoDirectory: its parent directory does not exist.
Absent     == [kind |-> "absent"]
NoDirectory == [kind |-> "no_dir"]
Unreadable == [kind |-> "unreadable"]
TextFile(doc) == [kind |-> "text", json |-> doc]
Garbage    == [kind |-> "garbage"]

SubDocs == {[kind |-> "null"]} \cup
           {[kind |-> "object", end_date |-> e, next_payment |-> n] :
                e \in {JsonNull, 0} \cup Times, n \in Times}
MetaDoc(token, sub) == [kind |-> "object", token |-> token, subscription |-> sub]

(***************************************************************************)
(* core/bridge.py: the credential store.                                   *)
(***************************************************************************)
\* read_subscription_cache(): [exc, val]
read_subscription_cache(file) ==
    CASE file.kind \in {"absent", "no_dir"} ->
            [exc |-> Exc("FileNotFoundError", "No such file"), val |-> NoneRec]
      [] file.kind = "unreadable" ->
            [exc |-> Exc("PermissionError", "Permission denied"), val |-> NoneRec]
      [] OTHER -> model_validate_json(file.json)

\* Lines 20 and 28: parent.mkdir(parents=True, exist_ok=True)
mkdir_parents(file) == IF file.kind = "no_dir" THEN Absent ELSE file

\* Lines 29-30: open(path, "w") and f.write(text); without the directory
\* nothing is written.
open_write(file, text) == IF file.kind = "no_dir" THEN file ELSE TextFile(text)

\* write_subscription_cache(subscription_cache): the file afterwards
write_subscription_cache(file, meta) ==
    open_write(mkdir_parents(file), model_dump_json(meta))

(***************************************************************************)
(* core/bridge.py: IlPostApi.login and IlPostApi.auth_token, as functions  *)
(* of the credential state st = [user, cache, file, cwd, calls, fails,     *)
(* loads, resp] and of the login endpoint's response.  They return         *)
(* [st, exc].                                                              *)
(***************************************************************************)
AuthState == [user  |-> user, cache |-> _subscription_cache, file |-> cacheFile,
              cwd   |-> cwdFile, calls |-> loginCalls, fails |-> loginFailures,
              loads |-> cacheLoads, resp |-> loginResponse]

\* The path login() hands to os.remove on expiry (bridge.py line 88): the bare
\* file name, resolved against the working directory.
expired_cache_path == "ILPOST_SUBSCRIPTION_CACHE_FILE_NAME"

\* os.remove(path): [st, exc]
os_remove(st, path) ==
    IF path = "ILPOST_SUBSCRIPTION_CACHE_FILE" \/ st.cwd = "is_cache_file"
    THEN IF st.file.kind = "absent"
         THEN [st |-> st, exc |-> Exc("FileNotFoundError", "No such file")]
         ELSE [st |-> [st EXCEPT !.file = Absent], exc |-> NoExc]
    ELSE IF st.cwd = "missing"
         THEN [st |-> st, exc |-> Exc("FileNotFoundError", "No such file")]
         ELSE [st |-> [st EXCEPT !.cwd = "missing"], exc |-> NoExc]

\* Lines 112-115: the login call failed.
login_failed(st) ==
    [st  |-> [st EXCEPT !.calls = @ + 1, !.fails = @ + 1],
     exc |-> PodcastException("Failed to fetch subscription data from API",
                              <<>>, NoneInt)]

\* Lines 108-111: the decoded user record is kept and its credential written.
store_user(st, m) ==
    IF m.exc # NoExc THEN login_failed(st)
    ELSE [st  |-> [st EXCEPT !.calls = @ + 1,
                             !.user  = [kind |-> "user", meta |-> m.val],
                             !.cache = m.val,
                             !.file  = write_subscription_cache(st.file, m.val)],
          exc |-> NoExc]

\* Line 106: response.raise_for_status() raises for the 4xx and 5xx statuses.
raise_for_status(status) == status >= 400 /\ status < 600

\* Lines 105-115: what follows the login call, given its response.
login_response(st, resp) ==
    IF raise_for_status(resp.status) THEN login_failed(st)
    ELSE IF resp.body.kind # "object" THEN login_failed(st)     \* response.json()
    ELSE store_user(st, model_validate_json(resp.body.profile_meta))

\* Lines 93-115: the network login and what follows it.
network_login(st, resp) == login_response([st EXCEPT !.resp = resp], resp)

\* Lines 88-89, given the outcome of os.remove.
after_remove(rm) ==
    IF rm.exc # NoExc THEN rm
    ELSE [st  |-> rm.st,
          exc |-> PodcastException("Cached subscription expired", <<>>, NoneInt)]

\* Lines 85-90, with the record read from the file already assigned.
check_subscription(st) ==
    IF st.cache.subscription = NoneRec
    THEN [st  |-> st,
          exc |-> PodcastException("No subscription data found in cache",
                                   <<>>, NoneInt)]
    ELSE IF subscription_is_expired(st.cache.subscription)
    THEN after_remove(os_remove(st, expired_cache_path))
    ELSE [st |-> st, exc |-> NoExc]

\* Line 84, given the outcome of read_subscription_cache().
after_read(st, rd) ==
    IF rd.exc # NoExc THEN [st |-> st, exc |-> rd.exc]
    ELSE check_subscription([st EXCEPT !.cache = rd.val])

\* Lines 83-90: the try block; [st, exc].
login_try(st) ==
    after_read([st EXCEPT !.loads = @ + 1, !.file = mkdir_parents(@)],
               read_subscription_cache(st.file))

\* Lines 91-115: the except clause, given the outcome of the try block.
login_except(t, resp) ==
    IF t.exc = NoExc THEN t
    ELSE IF IsInstance(t.exc, {"FileNotFoundError", "ValueError", "PodcastException"})
    THEN network_login(t.st, resp)
    ELSE t

\* IlPostApi.login: [st, exc]
login(st, resp) == login_except(login_try(st), resp)

\* needs_login without the test of the credential held in memory.
needs_login_mut(st) == TRUE

\* The condition under which auth_token calls login() (line 134).
needs_login(st) == st.user = NoneRec \/ st.cache = NoneRec

\* Line 136, given the outcome of line 135.
token_of(r) ==
    IF r.exc # NoExc THEN [st |-> r.st, exc |-> r.exc, token |-> ""]
    ELSE [st |-> r.st, exc |-> NoExc, token |-> r.st.cache.token.secret]

\* IlPostApi.auth_token: [st, exc, token]
auth_token(st, resp) ==
    token_of(IF needs_login(st) THEN login(st, resp) ELSE [st |-> st, exc |-> NoExc])

\* IlPostApi.subscription, given the held credential record.
subscription_of(cache) == IF cache # NoneRec THEN cache.subscription ELSE NoneRec

\* IlPostApi.is_expired, given the held credential record.
api_is_expired(cache) ==
    IF subscription_of(cache) # NoneRec
    THEN subscription_is_expired(subscription_of(cache))
    ELSE TRUE

\* IlPostApi.is_expired
is_expired == api_is_expired(_subscription_cache)

\* The responses of the login endpoint.
LoginResponses ==
    {[status |-> 401, body |-> Garbage]} \cup
    {[status |-> 200, body |-> Garbage]} \cup
    {[status |-> 200, body |-> [kind |-> "object", profile_meta |-> Garbage]]} \cup
    {[status |-> 300,
      body |-> [kind |-> "object",
                profile_meta |-> MetaDoc("t1", [kind |-> "object", end_date |-> 0,
                                                next_payment |-> MaxTime])]]} \cup
    {[status |-> 200,
      body |-> [kind |-> "object", profile_meta |-> MetaDoc("t1", s)]] : s \in SubDocs}

\* The credential state after an action that evaluated auth_token.
SetAuth(st) ==
    /\ user' = st.user
    /\ _subscription_cache' = st.cache
    /\ cacheFile' = st.file
    /\ cwdFile' = st.cwd
    /\ loginCalls' = st.calls
    /\ loginFailures' = st.fails
    /\ cacheLoads' = st.loads
    /\ loginResponse' = st.resp

(***************************************************************************)
(* The catalog endpoint.  A server is [n, mode, at, status]: n items, the  *)
(* items 1..n in server order.  An honest server honours page size and     *)
(* page index and reports total = n.  A stalling server answers every page *)
(* from page `at` on with an empty data array and total = n.  A failing    *)
(* server answers every page from page `at` on with the status `status`.   *)
(* A server whose mode is one of MalformedShapes answers every page from   *)
(* page `at` on with status 200 and a body of that shape.                  *)
(***************************************************************************)
PAGE_SIZE == 200

ErrStatuses == {404, 500}

Reason(status) ==
    CASE status = 200 -> "OK"
      [] status = 404 -> "Not Found"
      [] status = 500 -> "Internal Server Error"
      [] OTHER        -> "Unknown"

Max(a, b) == IF a >= b THEN a ELSE b
Min(a, b) == IF a <= b THEN a ELSE b

CatalogSizes(fullPages, slack) ==
    {k * PAGE_SIZE + d : k \in 0..fullPages, d \in (0 - slack)..slack} \cap Nat

HonestServers(sizes) ==
    {[n |-> n, mode |-> "honest", at |-> 1, status |-> 200] : n \in sizes}

StallingServers(sizes) ==
    {[n |-> n, mode |-> "stall", at |-> a, status |-> 200] :
         n \in sizes, a \in 1..MaxFaultPage}

FailingServers(sizes, statuses) ==
    {[n |-> n, mode |-> "error", at |-> a, status |-> s] :
         n \in sizes, a \in 1..MaxFaultPage, s \in statuses}

Servers(sizes) ==
    HonestServers(sizes) \cup StallingServers(sizes)
    \cup FailingServers(sizes, ErrStatuses)

\* Servers that ignore the requested page size and the catalog: every page
\* carries `at` items, and the reported total is n.
SloppyServers(totals, lengths) ==
    {[n |-> t, mode |-> "sloppy", at |-> k, status |-> 200] :
         t \in totals, k \in lengths}

\* The bodies that are not an envelope with a total-item count and a data array.
MalformedShapes ==
    {"invalid_json", "not_object", "no_head", "head_null", "no_head_data",
     "no_total", "no_data", "data_null", "data_string", "total_string"}

MalformedServers(sizes) ==
    {[n |-> n, mode |-> m, at |-> a, status |-> 200] :
         n \in sizes, m \in MalformedShapes, a \in 1..MaxFaultPage}

\* A response body, by the JSON type of each part the traversal reads: the
\* body itself, body["head"], body["head"]["data"], its "total" and
\* body["data"] ("missing" for an absent key, "invalid" for a body that is
\* not JSON).
Envelope(total, data) ==
    [kind |-> "object", head |-> "object", head_data |-> "object",
     total_type |-> "int", total |-> total, data_type |-> "array", data |-> data]

MalformedBody(shape, total, data) ==
    CASE shape = "invalid_json" -> [Envelope(total, data) EXCEPT !.kind = "invalid"]
      [] shape = "not_object"   -> [Envelope(total, data) EXCEPT !.kind = "array"]
      [] shape = "no_head"      -> [Envelope(total, data) EXCEPT !.head = "missing"]
      [] shape = "head_null"    -> [Envelope(total, data) EXCEPT !.head = "null"]
      [] shape = "no_head_data" -> [Envelope(total, data) EXCEPT !.head_data = "missing"]
      [] shape = "no_total"     -> [Envelope(total, data) EXCEPT !.total_type = "missing"]
      [] shape = "no_data"      -> [Envelope(total, data) EXCEPT !.data_type = "missing"]
      [] shape = "data_null"    -> [Envelope(total, data) EXCEPT !.data_type = "null"]
      [] shape = "data_string"  -> [Envelope(total, data) EXCEPT !.data_type = "string"]
      [] shape = "total_string" -> [Envelope(total, data) EXCEPT !.total_type = "string"]

\* The items an honest server puts on page pg of size `size`.
PageItems(n, pg, size) ==
    LET lo == (pg - 1) * size
        k  == Max(0, Min(size, n - lo))
    IN  [i \in 1..k |-> lo + i]

\* The items a sloppy server puts on page pg.
SloppyItems(k, pg) == [i \in 1..k |-> (pg - 1) * k + i]

\* GET {base}/{route}?hits=size&pg=pg
page_response(srv, pg, size) ==
    IF srv.mode = "sloppy"
    THEN [status |-> 200, reason |-> Reason(200),
          body |-> Envelope(srv.n, SloppyItems(srv.at, pg))]
    ELSE IF srv.mode = "error" /\ pg >= srv.at
    THEN [status |-> srv.status, reason |-> Reason(srv.status),
          body |-> MalformedBody("invalid_json", 0, <<>>)]
    ELSE IF srv.mode = "stall" /\ pg >= srv.at
    THEN [status |-> 200, reason |-> Reason(200), body |-> Envelope(srv.n, <<>>)]
    ELSE IF srv.mode \in MalformedShapes /\ pg >= srv.at
    THEN [status |-> 200, reason |-> Reason(200),
          body |-> MalformedBody(srv.mode, srv.n, PageItems(srv.n, pg, size))]
    ELSE [status |-> 200, reason |-> Reason(200),
          body |-> Envelope(srv.n, PageItems(srv.n, pg, size))]

(***************************************************************************)
(* core/bridge.py: IlPostApi.recursive_podcast_get.  Frame k of the        *)
(* recursion handles page k; a request carries the innermost frame's page  *)
(* and counter.                                                            *)
(***************************************************************************)
\* Line 172: page_size = hits or 200
page_size(h) == IF h = NoneInt \/ h = 0 THEN PAGE_SIZE ELSE h

\* yield_items without the limit test of lines 195-196.
yield_items_mut(data, cnt, h) ==
    [yielded |-> Len(data), counter |-> cnt + Len(data), returned |-> FALSE]

\* Lines 190-196: the loop over data.  Item i is yielded and counted, and the
\* loop returns after the first item that brings the counter to hits; how many
\* items were yielded, the counter afterwards, and whether the loop returned.
yield_items(data, cnt, h) ==
    LET n     == Len(data)
        stops == IF h = NoneInt THEN {} ELSE {i \in 1..n : cnt + i >= h}
    IN  IF stops = {}
        THEN [yielded |-> Len(data), counter |-> cnt + Len(data), returned |-> FALSE]
        ELSE LET k == CHOOSE i \in stops : \A j \in stops : i <= j
             IN  [yielded |-> k, counter |-> cnt + k, returned |-> TRUE]

\* more_pages with the remaining-items test off by one.
more_pages_mut(cnt, total_items, h) ==
    cnt + 1 < total_items /\ (h = NoneInt \/ cnt < h)

\* Line 199: whether the next page is requested.
more_pages(cnt, total_items, h) ==
    cnt < total_items /\ (h = NoneInt \/ cnt < h)

\* except_handler catching every exception.
except_handler_mut(exc) ==
    IF IsInstance(exc, {"Exception"})
    THEN PodcastException("Failed to parse response from API", <<>>, NoneInt)
    ELSE exc

\* Lines 207-208: the except clause of one frame.
except_handler(exc) ==
    IF IsInstance(exc, {"KeyError", "ValueError"})
    THEN PodcastException("Failed to parse response from API", <<>>, NoneInt)
    ELSE exc

\* An exception leaving n enclosing frames, each through its except clause.
Propagate(exc, n) ==
    LET through[k \in 0..n] == IF k = 0 THEN exc ELSE except_handler(through[k - 1])
    IN  through[n]

\* Lines 179-183: the status check.
status_ok(status) == status = 200

\* Lines 185-188: decoding the body and reading head, data and total out of
\* it; the exception raised, if any.
envelope_error(body) ==
    CASE body.kind = "invalid"        -> Exc("JSONDecodeError", "invalid JSON")
      [] body.kind # "object"         -> Exc("TypeError", "indices must be integers")
      [] body.head = "missing"        -> Exc("KeyError", "head")
      [] body.head # "object"         -> Exc("TypeError", "not subscriptable")
      [] body.head_data = "missing"   -> Exc("KeyError", "data")
      [] body.data_type = "missing"   -> Exc("KeyError", "data")
      [] body.head_data # "object"    -> Exc("TypeError", "not subscriptable")
      [] body.total_type = "missing"  -> Exc("KeyError", "total")
      [] OTHER                        -> NoExc

\* Lines 190-191: iterating data and validating what it holds; the exception
\* raised before the first record is yielded, if any.
iteration_error(body) ==
    CASE body.data_type = "array"  -> NoExc
      [] body.data_type = "string" -> Exc("ValidationError", "validation error")
      [] OTHER                     -> Exc("TypeError", "object is not iterable")

\* An exception raised in the frame with counter cnt.
Raise(exc, cnt) == [kind |-> "raise", out |-> <<>>, counter |-> cnt, exc |-> exc]

\* Lines 190-206, given the outcome y of the loop over data: the records
\* yielded, and then the return, the comparison of the counter with the
\* total (line 199) or the exception that comparison raises.
after_loop(body, y, h) ==
    [kind    |-> IF y.returned THEN "return"
                 ELSE IF body.total_type # "int" THEN "raise"
                 ELSE IF more_pages(y.counter, body.total, h) THEN "recurse"
                 ELSE "return",
     out     |-> SubSeq(body.data, 1, y.yielded),
     counter |-> y.counter,
     exc     |-> IF ~y.returned /\ body.total_type # "int"
                 THEN Exc("TypeError", "'<' not supported")
                 ELSE NoExc]

\* Lines 185-206 on the body of a response with status 200.
page_body(body, cnt, h) ==
    IF envelope_error(body) # NoExc THEN Raise(envelope_error(body), cnt)
    ELSE IF iteration_error(body) # NoExc THEN Raise(iteration_error(body), cnt)
    ELSE after_loop(body, yield_items(body.data, cnt, h), h)

\* Lines 184-208: an exception raised inside the try block of the frame of
\* page pg passes that frame's except clause and those of the pg - 1
\* enclosing frames.
in_try(r, pg) ==
    IF r.kind = "raise" THEN [r EXCEPT !.exc = Propagate(r.exc, pg)] ELSE r

\* Lines 179-206 on one response, in the frame of page pg with counter cnt:
\* [kind, exc, out, counter] with kind "raise", "return" or "recurse".
process_page(resp, pg, cnt, h) ==
    IF ~status_ok(resp.status)
    THEN [kind |-> "raise", out |-> <<>>, counter |-> cnt,
          exc  |-> Propagate(PodcastException("Failed to fetch data from API",
                                              <<resp.status, resp.reason>>,
                                              resp.status),
                             pg - 1)]
    ELSE in_try(page_body(resp.body, cnt, h), pg)

\* request_with asking for page 1 in every frame.
request_with_mut(a, pg, h, handlers) ==
    IF a.exc # NoExc
    THEN [pc |-> "failed", error |-> Propagate(a.exc, handlers), st |-> a.st,
          sent |-> <<>>]
    ELSE [pc |-> "await", error |-> NoExc, st |-> a.st,
          sent |-> <<[pg |-> 1, hits |-> page_size(h), token |-> a.token]>>]

\* Lines 175-178, given the outcome of auth_token.
request_with(a, pg, h, handlers) ==
    IF a.exc # NoExc
    THEN [pc |-> "failed", error |-> Propagate(a.exc, handlers), st |-> a.st,
          sent |-> <<>>]
    ELSE [pc |-> "await", error |-> NoExc, st |-> a.st,
          sent |-> <<[pg |-> pg, hits |-> page_size(h), token |-> a.token]>>]

\* Lines 170-178: entering the frame of page pg: the token is read, then the
\* request is sent.  An exception of auth_token leaves the `handlers`
\* enclosing frames.  [pc, error, st, sent]
send_page(st, resp, pg, h, handlers) ==
    request_with(auth_token(st, resp), pg, h, handlers)

Range(s) == {s[i] : i \in 1..Len(s)}

\* The sum of a per-request counter.
Total(f) ==
    LET sum[k \in 0..NumProcs] == IF k = 0 THEN 0 ELSE sum[k - 1] + f[k]
    IN  sum[NumProcs]

(***************************************************************************)
(* core/bridge.py: IlPostApi.podcasts and IlPostApi.get_podcasts.          *)
(***************************************************************************)
\* Line 66: whether podcasts runs get_podcasts().
cache_is_cold(cache) == cache = {}

\* podcasts_after_page merging each page into the show cache as it arrives.
podcasts_after_page_mut(cache, items) == cache \cup {items[i] : i \in 1..Len(items)}

\* Lines 72-77: get_podcasts() collects the records in a list of its own;
\* the show cache while a page is received.
podcasts_after_page(cache, items) == cache

\* Lines 68-69: the show cache after get_podcasts() has returned `shows`.
podcasts_after_fetch(cache, shows) == cache \cup Range(shows)

(***************************************************************************)
(* Initial states: the IlPostApi object after __init__ (lines 43-46), in   *)
(* an environment drawn from the given files, clock values and servers.    *)
(***************************************************************************)
\* The cache files a run of the program leaves behind, and what else may be
\* found at the path.
WrittenSubDocs == {d \in SubDocs : d.kind = "null" \/ d.end_date # 0}
CacheFiles ==
    {Absent, Unreadable, TextFile(Garbage)}
    \cup {TextFile(MetaDoc("t0", d)) : d \in WrittenSubDocs}

ActiveFile  == TextFile(MetaDoc("t0", [kind |-> "object", end_date |-> JsonNull,
                                       next_payment |-> MaxTime]))
ExpiredFile == TextFile(MetaDoc("t0", [kind |-> "object", end_date |-> 1,
                                       next_payment |-> MaxTime]))
CwdStates == {"is_cache_file", "other_file", "missing"}

InitApi(files, cwds, times, servers) ==
    /\ user = NoneRec
    /\ _subscription_cache = NoneRec
    /\ _podcasts = {}
    /\ cacheFile \in files
    /\ cwdFile \in cwds
    /\ now \in times
    /\ server \in servers
    /\ pc = [p \in Procs |-> "idle"]
    /\ op = [p \in Procs |-> "none"]
    /\ hits = [p \in Procs |-> NoneInt]
    /\ page = [p \in Procs |-> 0]
    /\ counter = [p \in Procs |-> 0]
    /\ emitted = [p \in Procs |-> <<>>]
    /\ requests = [p \in Procs |-> <<>>]
    /\ error = [p \in Procs |-> NoExc]
    /\ loginCalls = 0
    /\ loginFailures = 0
    /\ tokenCalls = [p \in Procs |-> 0]
    /\ catalogFetches = 0
    /\ reads = [p \in Procs |-> 0]
    /\ completedItems = {}
    /\ aborts = 0
    /\ coldStart = (cacheFile = Absent)
    /\ cacheLoads = 0
    /\ loginResponse = NoneRec

\* No route handler has run: the router module after import (line 17 of
\* api/routers/podcasts.py), with an episodes endpoint drawn from the given set.
InitRouter(episodeServers) ==
    /\ started = "no"
    /\ handler = [p \in Procs |-> NoHandler]
    /\ outcome = [p \in Procs |-> NoOutcome]
    /\ feed = [p \in Procs |-> <<>>]
    /\ rendered = [p \in Procs |-> <<>>]
    /\ episodeServer \in episodeServers

\* The function under study has been handed one of the given arguments.
InitPure(inputs) ==
    /\ input \in inputs
    /\ result = NoResult

InitWith(files, cwds, times, servers) ==
    /\ InitApi(files, cwds, times, servers)
    /\ InitRouter({[n |-> 0, mode |-> "honest", at |-> 1, status |-> 200]})
    /\ InitPure({NoInput})

\* The deepest frame the model follows a traversal into.
MaxPage == MaxFullPages + 1 + ExtraPages

SetProc(p, newpc, newop, h, pg, cnt, em, reqs, err) ==
    /\ pc' = [pc EXCEPT ![p] = newpc]
    /\ op' = [op EXCEPT ![p] = newop]
    /\ hits' = [hits EXCEPT ![p] = h]
    /\ page' = [page EXCEPT ![p] = pg]
    /\ counter' = [counter EXCEPT ![p] = cnt]
    /\ emitted' = [emitted EXCEPT ![p] = em]
    /\ requests' = [requests EXCEPT ![p] = reqs]
    /\ error' = [error EXCEPT ![p] = err]

Terminal == {"idle", "done", "failed", "cancelled", "capped"}

(***************************************************************************)
(* Actions.  R is the set of responses the login endpoint may give.        *)
(***************************************************************************)
\* A handler calls recursive_podcast_get(podcast, hits=h) and runs it up to
\* its first suspension, the request for page 1.
StartFetch(p, h, R) ==
    /\ pc[p] = "idle"
    /\ \E resp \in R :
       \E s \in {send_page(AuthState, resp, 1, h, 0)} :
             /\ SetAuth(s.st)
             /\ SetProc(p, s.pc, "fetch", h, 1, 0, <<>>, s.sent, s.error)
             /\ aborts' = IF s.pc = "failed" THEN aborts + 1 ELSE aborts
    /\ tokenCalls' = [tokenCalls EXCEPT ![p] = @ + 1]
    /\ UNCHANGED <<_podcasts, now, server, catalogFetches, reads, completedItems,
                   coldStart>>
    /\ UNCHANGED <<routerVars, pureVars>>

\* A handler reads IlPostApi.podcasts: served from memory, or get_podcasts()
\* is started and runs up to the request for page 1.
ReadPodcasts(p, R) ==
    /\ pc[p] \in Terminal
    /\ Total(reads) < MaxReads
    /\ reads' = [reads EXCEPT ![p] = @ + 1]
    /\ IF cache_is_cold(_podcasts)
       THEN /\ \E resp \in R :
               \E s \in {send_page(AuthState, resp, 1, NoneInt, 0)} :
                     /\ SetAuth(s.st)
                     /\ SetProc(p, s.pc, "podcasts", NoneInt, 1, 0, <<>>, s.sent,
                                s.error)
                     /\ aborts' = IF s.pc = "failed" THEN aborts + 1 ELSE aborts
            /\ tokenCalls' = [tokenCalls EXCEPT ![p] = @ + 1]
            /\ catalogFetches' = catalogFetches + 1
       ELSE /\ SetProc(p, "done", "podcasts", NoneInt, 0, 0, <<>>, <<>>, NoExc)
            /\ UNCHANGED <<authVars, tokenCalls, catalogFetches, aborts>>
    /\ UNCHANGED <<_podcasts, now, server, completedItems, coldStart>>
    /\ UNCHANGED <<routerVars, pureVars>>

\* The response to the pending page request arrives: status check, decoding,
\* the yield loop, and then either the end of the traversal or the next frame
\* up to its request.  A finished get_podcasts() is merged into the show
\* cache in the same step (lines 67-70 have no suspension).
ReceivePage(p, R) ==
    /\ pc[p] = "await"
    /\ \E resp \in {page_response(server, page[p], page_size(hits[p]))} :
       \E r \in {process_page(resp, page[p], counter[p], hits[p])} :
       \E em \in {emitted[p] \o r.out} :
       \E seen \in {IF op[p] = "podcasts" /\ r.kind # "raise"
                    THEN podcasts_after_page(_podcasts, r.out) ELSE _podcasts} :
           CASE r.kind = "raise" ->
                  /\ SetProc(p, "failed", op[p], hits[p], page[p], r.counter, em,
                             requests[p], r.exc)
                  /\ aborts' = aborts + 1
                  /\ UNCHANGED <<authVars, tokenCalls, _podcasts, completedItems>>
             [] r.kind = "return" ->
                  /\ SetProc(p, "done", op[p], hits[p], page[p], r.counter, em,
                             requests[p], NoExc)
                  /\ _podcasts' = IF op[p] = "podcasts"
                                  THEN podcasts_after_fetch(seen, em) ELSE seen
                  /\ completedItems' = IF op[p] = "podcasts"
                                       THEN completedItems \cup Range(em)
                                       ELSE completedItems
                  /\ UNCHANGED <<authVars, tokenCalls, aborts>>
             [] r.kind = "recurse" /\ page[p] >= MaxPage ->
                  /\ SetProc(p, "capped", op[p], hits[p], page[p], r.counter, em,
                             requests[p], NoExc)
                  /\ _podcasts' = seen
                  /\ UNCHANGED <<authVars, tokenCalls, completedItems, aborts>>
             [] r.kind = "recurse" /\ page[p] < MaxPage ->
                  /\ \E lr \in R :
                     \E s \in {send_page(AuthState, lr, page[p] + 1, hits[p], page[p])} :
                           /\ SetAuth(s.st)
                           /\ SetProc(p, s.pc, op[p], hits[p],
                                      IF s.pc = "await" THEN page[p] + 1 ELSE page[p],
                                      r.counter, em, requests[p] \o s.sent, s.error)
                           /\ aborts' = IF s.pc = "failed" THEN aborts + 1 ELSE aborts
                  /\ tokenCalls' = [tokenCalls EXCEPT ![p] = @ + 1]
                  /\ _podcasts' = seen
                  /\ UNCHANGED completedItems
    /\ UNCHANGED <<now, server, catalogFetches, reads, coldStart>>
    /\ UNCHANGED <<routerVars, pureVars>>

\* The caller's request is cancelled while the coroutine waits for a page:
\* CancelledError is raised at the suspension point.
Cancel(p) ==
    /\ pc[p] = "await"
    /\ SetProc(p, "cancelled", op[p], hits[p], page[p], counter[p], emitted[p],
               requests[p], Propagate(Exc("CancelledError", ""), page[p]))
    /\ aborts' = aborts + 1
    /\ UNCHANGED <<authVars, _podcasts, now, server, tokenCalls, catalogFetches,
                   reads, completedItems, coldStart>>
    /\ UNCHANGED <<routerVars, pureVars>>

\* A handler evaluates IlPostApi.auth_token.
CallAuthToken(p, R) ==
    /\ pc[p] \in Terminal
    /\ Total(tokenCalls) < MaxTokenCalls
    /\ \E resp \in R :
       \E a \in {auth_token(AuthState, resp)} :
             /\ SetAuth(a.st)
             /\ SetProc(p, IF a.exc = NoExc THEN "done" ELSE "failed", "token",
                        NoneInt, 0, 0, <<>>, <<>>, a.exc)
    /\ tokenCalls' = [tokenCalls EXCEPT ![p] = @ + 1]
    /\ UNCHANGED <<_podcasts, now, server, catalogFetches, reads, completedItems,
                   aborts, coldStart>>
    /\ UNCHANGED <<routerVars, pureVars>>

\* Time passes.
Tick ==
    /\ now < MaxTime
    /\ now' = now + 1
    /\ UNCHANGED <<authVars, _podcasts, server, fetchVars, tokenCalls,
                   catalogFetches, reads, completedItems, aborts, coldStart>>
    /\ UNCHANGED <<routerVars, pureVars>>

(***************************************************************************)
(* SpecFetch: one traversal, recursive_podcast_get(podcast, hits), against *)
(* every server.                                                           *)
(***************************************************************************)
HitsValues == {NoneInt} \cup 0..MaxHits

FetchLoginResponses ==
    {[status |-> 401, body |-> Garbage],
     [status |-> 200,
      body |-> [kind |-> "object",
                profile_meta |-> MetaDoc("t1", [kind |-> "object",
                                                end_date |-> 0,
                                                next_payment |-> MaxTime])]]}

InitFetch == InitWith({Absent, ActiveFile}, {"missing"}, {MaxTime},
                      Servers(CatalogSizes(MaxFullPages, MaxSlack)))

StartFetchStep == \E h \in HitsValues : StartFetch(1, h, FetchLoginResponses)
ReceiveFetchStep == ReceivePage(1, FetchLoginResponses)

NextFetch == StartFetchStep \/ ReceiveFetchStep

SpecFetch == InitFetch /\ [][NextFetch]_vars

(***************************************************************************)
(* SpecLimit: one traversal against every server that ignores the page     *)
(* size it is asked for and reports any total.                             *)
(***************************************************************************)
InitLimit == InitWith({ActiveFile}, {"missing"}, {MaxTime},
                      SloppyServers(0..(MaxHits + MaxSlack), 0..(MaxHits + MaxSlack)))

SpecLimit == InitLimit /\ [][NextFetch]_vars

(***************************************************************************)
(* SpecParse: one traversal against every server that answers with a body  *)
(* that is not an envelope.                                                *)
(***************************************************************************)
InitParse == InitWith({ActiveFile}, {"missing"}, {MaxTime},
                      MalformedServers(CatalogSizes(MaxFullPages, MaxSlack)))

SpecParse == InitParse /\ [][NextFetch]_vars

(***************************************************************************)
(* models/podcast.py: PodcastFeed.  An episode is [id, date]; an item of   *)
(* the rendered channel is [guid, pubDate].                                *)
(***************************************************************************)
Episode(id, date) == [id |-> id, date |-> date]

\* PodcastFeed.add_episode: self.episodes.append(episode)
add_episode(episodes, episode) == Append(episodes, episode)

\* sorted_episodes leaving the episodes in insertion order.
sorted_episodes_mut(episodes) == episodes

\* PodcastFeed.sorted_episodes: sorted(self.episodes, key=date, reverse=True),
\* a stable sort: the episodes of the latest date in their list order, then
\* those of the next date, and so on.
sorted_episodes(episodes) ==
    LET dates  == {episodes[i].date : i \in 1..Len(episodes)}
        nth(k) == CHOOSE d \in dates : Cardinality({x \in dates : x > d}) = k - 1
        upto[k \in 0..Cardinality(dates)] ==
            IF k = 0 THEN <<>>
            ELSE upto[k - 1] \o SelectSeq(episodes, LAMBDA e : e.date = nth(k))
    IN  upto[Cardinality(dates)]

\* PodcastEpisode.to_rss_item
to_rss_item(episode) == [guid |-> episode.id, pubDate |-> episode.date]

\* The items appended to the channel, given the sorted episodes (lines 198-199).
channel_items(sorted) == [i \in 1..Len(sorted) |-> to_rss_item(sorted[i])]

\* PodcastFeed.to_rss: the items of the channel, in document order.
to_rss(episodes) == channel_items(sorted_episodes(episodes))

\* to_rss sorting the stored list in place (self.episodes.sort).
episodes_after_render_mut(episodes) == sorted_episodes(episodes)

\* The stored list after to_rss / to_rss_string: sorted() builds a new list
\* and nothing assigns to self.episodes (lines 158, 198-213).
episodes_after_render(episodes) == episodes

\* A handler adds an episode to the feed it builds.
AddEpisode(p, episode) ==
    /\ outcome[p] = NoOutcome
    /\ Len(feed[p]) < MaxEpisodes
    /\ feed' = [feed EXCEPT ![p] = add_episode(@, episode)]
    /\ UNCHANGED <<apiVars, pureVars, started, handler, outcome, rendered,
                   episodeServer>>

\* The handler renders the feed it has built.
Render(p) ==
    /\ outcome[p] = NoOutcome
    /\ rendered' = [rendered EXCEPT ![p] = to_rss(feed[p])]
    /\ outcome' = [outcome EXCEPT ![p] = [kind |-> "ok", status |-> 200]]
    /\ feed' = [feed EXCEPT ![p] = episodes_after_render(@)]
    /\ UNCHANGED <<apiVars, pureVars, started, handler, episodeServer>>

(***************************************************************************)
(* SpecFeed: one feed, built from episodes added in any order (the same    *)
(* episode possibly more than once), then rendered.                        *)
(***************************************************************************)
Episodes == {Episode(i, d) : i \in 1..NumEpisodeIds, d \in 1..MaxDate}

InitFeed == InitWith({ActiveFile}, {"missing"}, {MaxTime},
                     {[n |-> 0, mode |-> "honest", at |-> 1, status |-> 200]})

AddEpisodeStep == \E e \in Episodes : AddEpisode(1, e)
RenderStep == Render(1)

NextFeed == AddEpisodeStep \/ RenderStep

SpecFeed == InitFeed /\ [][NextFeed]_vars

(***************************************************************************)
(* SpecFrame: one feed that is added to and rendered in any order, any     *)
(* number of times.  The outcome of a rendering is [kind |-> "ok", status, *)
(* current, again]: current until the next episode is added, and again if  *)
(* the feed had been rendered since the last episode was added.            *)
(***************************************************************************)
\* add_episode is called on the feed, rendered before or not.
AppendEpisode(p, episode) ==
    /\ Len(feed[p]) < MaxEpisodes
    /\ feed' = [feed EXCEPT ![p] = add_episode(@, episode)]
    /\ outcome' = [outcome EXCEPT ![p] =
                       IF @.kind = "ok" THEN [@ EXCEPT !.current = FALSE] ELSE @]
    /\ UNCHANGED <<apiVars, pureVars, started, handler, rendered, episodeServer>>

\* to_rss_string is called on the feed, rendered before or not.
RenderFeed(p) ==
    /\ rendered' = [rendered EXCEPT ![p] = to_rss(feed[p])]
    /\ feed' = [feed EXCEPT ![p] = episodes_after_render(@)]
    /\ outcome' = [outcome EXCEPT ![p] =
                       [kind |-> "ok", status |-> 200, current |-> TRUE,
                        again |-> (@.kind = "ok" /\ @.current)]]
    /\ UNCHANGED <<apiVars, pureVars, started, handler, episodeServer>>

AppendEpisodeStep == \E e \in Episodes : AppendEpisode(1, e)
RenderFeedStep == RenderFeed(1)

NextFrame == AppendEpisodeStep \/ RenderFeedStep

SpecFrame == InitFeed /\ [][NextFrame]_vars

(***************************************************************************)
(* api/routers/podcasts.py: the lifespan and the route handlers.  A call   *)
(* is [name, slug, complete, top_n]; the shows of the catalog are their    *)
(* slugs.  An outcome is [kind |-> "ok", status, count] for a handler that *)
(* returned, and [kind |-> "raise", exc, cause] for one that raised exc    *)
(* (from cause).                                                           *)
(***************************************************************************)
FEED_LIMIT == 20

\* A slug no show of the catalog has.
UnknownSlug == 0

\* fastapi.HTTPException(status_code, detail)
HTTPException(status_code, detail) ==
    [type |-> "HTTPException", text |-> detail, detail |-> <<>>,
     status_code |-> status_code]

SlugHandlers == {"list_episodes", "latest", "rss", "rss_complete"}

HandlerCalls ==
    {[name |-> "list_podcasts", slug |-> UnknownSlug, complete |-> FALSE, top_n |-> t] :
         t \in {NoneInt, 1}}
    \cup {[name |-> "list_episodes", slug |-> sl, complete |-> FALSE, top_n |-> t] :
              sl \in {1, UnknownSlug}, t \in {NoneInt, 1}}
    \cup {[name |-> "latest", slug |-> sl, complete |-> FALSE, top_n |-> NoneInt] :
              sl \in {1, UnknownSlug}}
    \cup {[name |-> "rss", slug |-> sl, complete |-> c, top_n |-> NoneInt] :
              sl \in {1, UnknownSlug}, c \in BOOLEAN}
    \cup {[name |-> "rss_complete", slug |-> sl, complete |-> TRUE, top_n |-> NoneInt] :
              sl \in {1, UnknownSlug}}

\* hits_of with the feed never capped.
hits_of_mut(h) ==
    CASE h.name \in {"list_podcasts", "list_episodes"} -> h.top_n
      [] h.name = "latest" -> 1
      [] OTHER -> NoneInt

\* The hits argument of the handler's traversal (lines 55, 76, 100, 127, 154).
hits_of(h) ==
    CASE h.name \in {"list_podcasts", "list_episodes"} -> h.top_n
      [] h.name = "latest" -> 1
      [] h.name = "rss" -> IF h.complete THEN NoneInt ELSE FEED_LIMIT
      [] OTHER -> NoneInt

\* The handlers whose body is inside try / except Exception (lines 50-60,
\* 68-82, 92-105).
guarded(h) == h.name \in {"list_podcasts", "list_episodes", "latest"}

\* The handler's outcome when its body raises exc.
raised(h, exc) ==
    IF guarded(h) /\ IsInstance(exc, {"Exception"})
    THEN [kind |-> "raise", exc |-> HTTPException(500, "Internal server error"),
          cause |-> exc]
    ELSE [kind |-> "raise", exc |-> exc, cause |-> NoExc]

returned(n) == [kind |-> "ok", status |-> 200, count |-> n]

\* Lines 71-72, 95-96, 118, 145: podcasts.get(slug, None) is not None
lookup(shows, slug) == slug \in shows

\* The handler's outcome once its traversal has ended having yielded em.
finish(h, em) ==
    CASE h.name = "list_podcasts" ->
            IF Len(em) = 0 THEN raised(h, HTTPException(404, "No podcasts found"))
            ELSE returned(0)
      [] h.name = "list_episodes" -> returned(Len(em))
      [] h.name = "latest" ->
            IF Len(em) = 0 THEN raised(h, Exc("StopAsyncIteration", ""))
            ELSE returned(1)
      [] OTHER ->
            IF Len(em) = 0 THEN raised(h, HTTPException(404, "No episodes found"))
            ELSE returned(Len(em))

\* PodcastEpisode.model_validate(item) for the items of the episodes endpoint.
episodes_of(items) ==
    [i \in 1..Len(items) |-> Episode(items[i], 1 + (items[i] % MaxDate))]

\* The feed after the episodes yielded by one page have been added (lines
\* 126-129, 154-155).
feed_after(h, episodes, items) ==
    IF h.name \in {"rss", "rss_complete"} THEN episodes \o episodes_of(items)
    ELSE episodes

\* The lifespan's startup code: IlPostApi() and login().
Startup(R) ==
    /\ started = "no"
    /\ \E resp \in R :
       \E r \in {login(AuthState, resp)} :
           /\ SetAuth(r.st)
           /\ started' = IF r.exc = NoExc THEN "yes" ELSE "failed"
    /\ UNCHANGED <<fetchVars, _podcasts, now, server, tokenCalls, catalogFetches,
                   reads, completedItems, aborts, coldStart, handler, outcome,
                   feed, rendered, episodeServer, pureVars>>

\* The handler's traversal is started and runs up to its request for page 1.
StartTraversal(p, h, R) ==
    \E resp \in R :
    \E s \in {send_page(AuthState, resp, 1, hits_of(h), 0)} :
        /\ SetAuth(s.st)
        /\ SetProc(p, s.pc, "fetch", hits_of(h), 1, 0, <<>>, s.sent, s.error)
        /\ tokenCalls' = [tokenCalls EXCEPT ![p] = @ + 1]
        /\ aborts' = IF s.pc = "failed" THEN aborts + 1 ELSE aborts
        /\ outcome' = IF s.pc = "failed"
                      THEN [outcome EXCEPT ![p] = raised(h, s.error)] ELSE outcome

\* Lines 71-76, 95-100, 118-126, 145-154: with the show cache at hand, the
\* show is looked up and, if it is there, the episode traversal is started.
LookupShow(p, h, shows, R) ==
    IF lookup(shows, h.slug)
    THEN StartTraversal(p, h, R)
    ELSE /\ SetProc(p, "failed", op[p], hits[p], page[p], counter[p], emitted[p],
                    requests[p], NoExc)
         /\ outcome' = [outcome EXCEPT
                           ![p] = raised(h, HTTPException(404, "Podcast not found"))]
         /\ UNCHANGED <<authVars, tokenCalls, aborts>>

\* A request arrives and its handler runs up to its first suspension.
CallHandler(p, h, R) ==
    /\ started = "yes"
    /\ pc[p] = "idle"
    /\ handler' = [handler EXCEPT ![p] = h]
    /\ IF h.name = "list_podcasts"
       THEN /\ IF is_expired
               THEN /\ SetProc(p, "failed", "none", NoneInt, 0, 0, <<>>, <<>>, NoExc)
                    /\ outcome' = [outcome EXCEPT
                           ![p] = raised(h, HTTPException(401, "Subscription expired"))]
                    /\ UNCHANGED <<authVars, tokenCalls, aborts>>
               ELSE StartTraversal(p, h, R)
            /\ UNCHANGED <<reads, catalogFetches>>
       ELSE /\ reads' = [reads EXCEPT ![p] = @ + 1]
            /\ IF cache_is_cold(_podcasts)
               THEN /\ \E resp \in R :
                       \E s \in {send_page(AuthState, resp, 1, NoneInt, 0)} :
                           /\ SetAuth(s.st)
                           /\ SetProc(p, s.pc, "podcasts", NoneInt, 1, 0, <<>>, s.sent,
                                      s.error)
                           /\ aborts' = IF s.pc = "failed" THEN aborts + 1 ELSE aborts
                           /\ outcome' = IF s.pc = "failed"
                                         THEN [outcome EXCEPT ![p] = raised(h, s.error)]
                                         ELSE outcome
                    /\ tokenCalls' = [tokenCalls EXCEPT ![p] = @ + 1]
                    /\ catalogFetches' = catalogFetches + 1
               ELSE /\ LookupShow(p, h, _podcasts, R)
                    /\ UNCHANGED catalogFetches
    /\ UNCHANGED <<_podcasts, now, server, completedItems, coldStart, started, feed,
                   rendered, episodeServer, pureVars>>

\* The endpoint the pending page request of p went to.
endpoint(p) ==
    IF op[p] = "fetch" /\ handler[p].name \in SlugHandlers THEN episodeServer
    ELSE server

\* The response to the handler's pending page request arrives, and the
\* handler runs up to its next suspension or to its end.
HandlerReceive(p, R) ==
    /\ pc[p] = "await"
    /\ handler[p] # NoHandler
    /\ \E resp \in {page_response(endpoint(p), page[p], page_size(hits[p]))} :
       \E r \in {process_page(resp, page[p], counter[p], hits[p])} :
       \E em \in {emitted[p] \o r.out} :
       \E fd \in {IF op[p] = "fetch" THEN feed_after(handler[p], feed[p], r.out)
                   ELSE feed[p]} :
           /\ feed' = [feed EXCEPT ![p] = fd]
           /\ IF op[p] = "fetch" /\ handler[p].name = "latest" /\ r.out # <<>>
              THEN \* anext() returns the first record yielded
                   /\ SetProc(p, "done", op[p], hits[p], page[p], r.counter, em,
                              requests[p], NoExc)
                   /\ outcome' = [outcome EXCEPT ![p] = returned(1)]
                   /\ UNCHANGED <<authVars, tokenCalls, aborts, _podcasts,
                                  completedItems, rendered>>
              ELSE IF r.kind = "raise"
              THEN /\ SetProc(p, "failed", op[p], hits[p], page[p], r.counter, em,
                              requests[p], r.exc)
                   /\ outcome' = [outcome EXCEPT ![p] = raised(handler[p], r.exc)]
                   /\ aborts' = aborts + 1
                   /\ UNCHANGED <<authVars, tokenCalls, _podcasts, completedItems,
                                  rendered>>
              ELSE IF r.kind = "recurse"
              THEN /\ \E lr \in R :
                      \E s \in {send_page(AuthState, lr, page[p] + 1, hits[p], page[p])} :
                          /\ SetAuth(s.st)
                          /\ SetProc(p, s.pc, op[p], hits[p],
                                     IF s.pc = "await" THEN page[p] + 1 ELSE page[p],
                                     r.counter, em, requests[p] \o s.sent, s.error)
                          /\ aborts' = IF s.pc = "failed" THEN aborts + 1 ELSE aborts
                          /\ outcome' = IF s.pc = "failed"
                                        THEN [outcome EXCEPT
                                                 ![p] = raised(handler[p], s.error)]
                                        ELSE outcome
                   /\ tokenCalls' = [tokenCalls EXCEPT ![p] = @ + 1]
                   /\ UNCHANGED <<_podcasts, completedItems, rendered>>
              ELSE IF op[p] = "podcasts"
              THEN \* get_podcasts() has returned: lines 68-70, then the lookup
                   /\ _podcasts' = podcasts_after_fetch(_podcasts, em)
                   /\ completedItems' = completedItems \cup Range(em)
                   /\ LookupShow(p, handler[p], podcasts_after_fetch(_podcasts, em), R)
                   /\ UNCHANGED rendered
              ELSE \* the handler's own traversal has ended
                   /\ SetProc(p, IF finish(handler[p], em).kind = "ok" THEN "done"
                                 ELSE "failed",
                              op[p], hits[p], page[p], r.counter, em, requests[p], NoExc)
                   /\ outcome' = [outcome EXCEPT ![p] = finish(handler[p], em)]
                   /\ rendered' = IF handler[p].name \in {"rss", "rss_complete"}
                                     /\ Len(fd) > 0
                                  THEN [rendered EXCEPT ![p] = to_rss(fd)]
                                  ELSE rendered
                   /\ UNCHANGED <<authVars, tokenCalls, aborts, _podcasts,
                                  completedItems>>
    /\ UNCHANGED <<now, server, catalogFetches, reads, coldStart, started, handler,
                   episodeServer, pureVars>>

(***************************************************************************)
(* SpecRouter: the application starts and one request is served by one of  *)
(* the route handlers, with an active or an expired subscription.          *)
(***************************************************************************)
EpisodeCounts ==
    {b + d : b \in {0, FEED_LIMIT, PAGE_SIZE}, d \in (0 - RouterSlack)..RouterSlack}
    \cap Nat

RouterLoginResponses ==
    {[status |-> 401, body |-> Garbage]} \cup
    {[status |-> 200,
      body |-> [kind |-> "object",
                profile_meta |-> MetaDoc("t1", [kind |-> "object", end_date |-> 0,
                                                next_payment |-> n])]] :
         n \in {1, MaxTime}}

InitRouterSpec ==
    /\ InitApi({Absent, ActiveFile, ExpiredFile}, {"missing"}, {MaxTime},
               HonestServers({0, NumShows}))
    /\ InitRouter(HonestServers(EpisodeCounts)
                  \cup FailingServers({PAGE_SIZE + 1}, {500}))
    /\ InitPure({NoInput})

StartupStep == Startup(RouterLoginResponses)
CallStep == \E h \in HandlerCalls : CallHandler(1, h, RouterLoginResponses)
HandlerReceiveStep == HandlerReceive(1, RouterLoginResponses)

NextRouter == StartupStep \/ CallStep \/ HandlerReceiveStep

SpecRouter == InitRouterSpec /\ [][NextRouter]_vars

(***************************************************************************)
(* SpecStore: the credential store on its own: a record is written to the  *)
(* cache file and the file is read, from every state of the file.          *)
(***************************************************************************)
Metas ==
    {[kind |-> "meta", token |-> [secret |-> t], subscription |-> sub] :
         t \in {"t0", "t1"},
         sub \in {NoneRec} \cup
                 {[kind |-> "sub", end_date |-> e, next_payment |-> n] :
                      e \in {NoneInt} \cup Times, n \in Times}}

StoreInputs == {[kind |-> "record", meta |-> m] : m \in Metas}

InitStore ==
    /\ InitApi({Absent, NoDirectory, Unreadable, TextFile(Garbage), ActiveFile,
                ExpiredFile},
               {"missing"}, {MaxTime},
               {[n |-> 0, mode |-> "honest", at |-> 1, status |-> 200]})
    /\ InitRouter({[n |-> 0, mode |-> "honest", at |-> 1, status |-> 200]})
    /\ InitPure(StoreInputs)

\* write_subscription_cache(record) is called.
WriteCache ==
    /\ result.kind = "none"
    /\ cacheFile' = write_subscription_cache(cacheFile, input.meta)
    /\ result' = [kind |-> "written", over |-> cacheFile.kind]
    /\ UNCHANGED <<user, _subscription_cache, cwdFile, loginCalls, loginFailures,
                   cacheLoads, loginResponse, fetchVars, _podcasts, now, server,
                   tokenCalls, catalogFetches, reads, completedItems, aborts,
                   coldStart, routerVars, input>>

\* read_subscription_cache() is called.
ReadCache ==
    /\ result.kind \in {"none", "written"}
    /\ cacheFile' = mkdir_parents(cacheFile)
    /\ cacheLoads' = cacheLoads + 1
    /\ result' = [kind |-> "read",
                  over |-> IF result.kind = "written" THEN result.over ELSE "unwritten",
                  exc  |-> read_subscription_cache(cacheFile).exc,
                  val  |-> read_subscription_cache(cacheFile).val]
    /\ UNCHANGED <<user, _subscription_cache, cwdFile, loginCalls, loginFailures,
                   loginResponse, fetchVars, _podcasts, now, server,
                   tokenCalls, catalogFetches, reads, completedItems, aborts,
                   coldStart, routerVars, input>>

NextStore == WriteCache \/ ReadCache

SpecStore == InitStore /\ [][NextStore]_vars

(***************************************************************************)
(* models/podcast.py: PodcastEpisode.number.  A slug is the sequence of    *)
(* its dashes and of the dash-free words between them.                     *)
(***************************************************************************)
SlugWords == {"ep", "12", "morning", "weekend", "x"}

Slugs ==
    {t \in UNION {[1..n -> SlugWords \cup {"-"}] : n \in 0..MaxSlugTokens} :
         \A i \in 1..(Len(t) - 1) : t[i] = "-" \/ t[i + 1] = "-"}

\* str.split("-"): the words between the dashes, "" where there is none.
split(slug) ==
    LET n      == Len(slug)
        dashes == {i \in 1..n : slug[i] = "-"}
        cut(k) == IF k = 0 THEN 0
                  ELSE IF k = Cardinality(dashes) + 1 THEN n + 1
                  ELSE CHOOSE i \in dashes : Cardinality({j \in dashes : j < i}) = k - 1
    IN  [k \in 1..(Cardinality(dashes) + 1) |->
             IF cut(k) = cut(k - 1) + 1 THEN "" ELSE slug[cut(k - 1) + 1]]

\* int(text): [kind, num, text, exc]
int(text) ==
    IF text = "12"
    THEN [kind |-> "int", num |-> 12, text |-> "", exc |-> NoExc]
    ELSE [kind |-> "raise", num |-> NoneInt, text |-> "",
          exc |-> Exc("ValueError", "invalid literal for int()")]

\* Lines 87-92, given slug_parts.
number_of(slug_parts) ==
    IF slug_parts[1] = "ep"
    THEN IF Len(slug_parts) < 2
         THEN [kind |-> "raise", num |-> NoneInt, text |-> "",
               exc |-> Exc("IndexError", "list index out of range")]
         ELSE int(slug_parts[2])
    ELSE IF SubSeq(slug_parts, 1, Min(2, Len(slug_parts))) = <<"morning", "weekend">>
    THEN [kind |-> "str", num |-> NoneInt, text |-> "Weekend", exc |-> NoExc]
    ELSE [kind |-> "none", num |-> NoneInt, text |-> "", exc |-> NoExc]

\* PodcastEpisode.number
number(slug) == number_of(split(slug))

\* The number of the episode with the given slug is computed.
ComputeNumber ==
    /\ result.kind = "none"
    /\ result' = [kind |-> "number", of |-> number(input.slug)]
    /\ UNCHANGED <<apiVars, routerVars, input>>

(***************************************************************************)
(* SpecNumber: number computed for every slug.                             *)
(***************************************************************************)
InitNumber ==
    /\ InitApi({ActiveFile}, {"missing"}, {MaxTime},
               {[n |-> 0, mode |-> "honest", at |-> 1, status |-> 200]})
    /\ InitRouter({[n |-> 0, mode |-> "honest", at |-> 1, status |-> 200]})
    /\ InitPure({[kind |-> "slug", slug |-> t] : t \in Slugs})

NextNumber == ComputeNumber

SpecNumber == InitNumber /\ [][NextNumber]_vars

(***************************************************************************)
(* SpecExpiry: is_expired evaluated, at any time, on a client that holds   *)
(* no credential record or the record validated from a JSON document.      *)
(***************************************************************************)
ExpiryTimes == 1..MaxDate

ExpirySubDocs ==
    {[kind |-> "null"]} \cup
    {[kind |-> "object", end_date |-> e, next_payment |-> n] :
         e \in {JsonNull, 0} \cup ExpiryTimes, n \in ExpiryTimes}

ExpiryInputs ==
    {[kind |-> "credential", held |-> FALSE, doc |-> Garbage]} \cup
    {[kind |-> "credential", held |-> TRUE, doc |-> MetaDoc("t0", d)] :
         d \in ExpirySubDocs}

\* The credential record of the client under study.
held_record(in) == IF in.held THEN model_validate_json(in.doc).val ELSE NoneRec

\* IlPostApi.is_expired is evaluated now.
CheckExpired ==
    /\ result' = [kind |-> "expired", at |-> now,
                  value |-> api_is_expired(held_record(input))]
    /\ UNCHANGED <<apiVars, routerVars, input>>

\* Time passes.
ExpiryTick ==
    /\ now < MaxDate
    /\ now' = now + 1
    /\ UNCHANGED <<authVars, _podcasts, server, fetchVars, tokenCalls,
                   catalogFetches, reads, completedItems, aborts, coldStart>>
    /\ UNCHANGED <<routerVars, pureVars>>

InitExpiry ==
    /\ InitApi({ActiveFile}, {"missing"}, ExpiryTimes,
               {[n |-> 0, mode |-> "honest", at |-> 1, status |-> 200]})
    /\ InitRouter({[n |-> 0, mode |-> "honest", at |-> 1, status |-> 200]})
    /\ InitPure(ExpiryInputs)

NextExpiry == CheckExpired \/ ExpiryTick

SpecExpiry == InitExpiry /\ [][NextExpiry]_vars

(***************************************************************************)
(* SpecAuth: requests evaluating auth_token in any order, while time       *)
(* passes, from every state of the cache file.                             *)
(***************************************************************************)
InitAuth == InitWith(CacheFiles, CwdStates, Times, {[n |-> 0, mode |-> "honest",
                                                     at |-> 1, status |-> 200]})

AuthTokenStep == \E p \in Procs : CallAuthToken(p, LoginResponses)

NextAuth == AuthTokenStep \/ Tick

SpecAuth == InitAuth /\ [][NextAuth]_vars

(***************************************************************************)
(* SpecCache: requests reading the show cache, concurrently and one after  *)
(* the other, with failing servers and cancelled requests.                 *)
(***************************************************************************)
CacheFullPages == 1

CacheServers ==
    HonestServers(CatalogSizes(CacheFullPages, 1))
    \cup FailingServers(CatalogSizes(CacheFullPages, 1), {500})

InitCache == InitWith({ActiveFile}, {"missing"}, {MaxTime}, CacheServers)

ReadStep == \E p \in Procs : ReadPodcasts(p, FetchLoginResponses)
ReceiveStep == \E p \in Procs : ReceivePage(p, FetchLoginResponses)
CancelStep == \E p \in Procs : Cancel(p)

NextCache == ReadStep \/ ReceiveStep \/ CancelStep

SpecCache == InitCache /\ [][NextCache]_vars

(***************************************************************************)
(* SpecChain: two traversals running concurrently, their steps interleaved *)
(* in any order, against one server.                                       *)
(***************************************************************************)
ChainServers ==
    HonestServers(CatalogSizes(CacheFullPages, MaxSlack))
    \cup SloppyServers(0..MaxHits, 1..MaxHits)

InitChain == InitWith({ActiveFile}, {"missing"}, {MaxTime}, ChainServers)

StartChainStep ==
    \E p \in Procs : \E h \in HitsValues : StartFetch(p, h, FetchLoginResponses)
ReceiveChainStep == \E p \in Procs : ReceivePage(p, FetchLoginResponses)

NextChain == StartChainStep \/ ReceiveChainStep

SpecChain == InitChain /\ [][NextChain]_vars

(***************************************************************************)
(* Properties of the traversal (SpecFetch).                                *)
(***************************************************************************)
Honest == server.mode = "honest"
Ceil(a, b) == (a + b - 1) \div b
FirstItems(k) == [i \in 1..k |-> i]
FinishedFetch(p) == pc[p] = "done" /\ op[p] = "fetch"

\* C1: against an honest server with a catalog of N items, a traversal with
\* limit L >= 0 that has run to its end has yielded exactly the first
\* min(L, N) items in server order; with L = 0 it has yielded nothing.
C1_LimitYieldsMin ==
    \A p \in Procs :
        (FinishedFetch(p) /\ Honest /\ hits[p] # NoneInt)
            => emitted[p] = FirstItems(Min(hits[p], server.n))

\* C2 as stated: against an honest server with N items, a traversal without
\* limit that has run to its end has yielded the N items once each, in ceil(N/200)
\* page requests of page size 200.
C2_Original ==
    \A p \in Procs :
        (FinishedFetch(p) /\ Honest /\ hits[p] = NoneInt)
            => /\ emitted[p] = FirstItems(server.n)
               /\ Len(requests[p]) = Ceil(server.n, PAGE_SIZE)
               /\ \A i \in 1..Len(requests[p]) : requests[p][i].hits = PAGE_SIZE

\* C2 as amended: the N items once each, in max(1, ceil(N/200)) page requests
\* for the pages 1, 2, ... of page size 200 (an empty catalog costs one request).
C2_UnlimitedYieldsAll ==
    \A p \in Procs :
        (FinishedFetch(p) /\ Honest /\ hits[p] = NoneInt)
            => /\ emitted[p] = FirstItems(server.n)
               /\ Len(requests[p]) = Max(1, Ceil(server.n, PAGE_SIZE))
               /\ \A i \in 1..Len(requests[p]) :
                      requests[p][i].hits = PAGE_SIZE /\ requests[p][i].pg = i

C2_Witness ==
    \E p \in Procs :
        /\ FinishedFetch(p) /\ Honest /\ hits[p] = NoneInt
        /\ server.n > 2 * PAGE_SIZE
        /\ Len(requests[p]) = 3
        /\ Len(emitted[p]) = server.n

\* The pending response of request p is an empty data array with a total
\* above the number of records emitted so far.
EmptyPageWithRemaining(p) ==
    /\ pc[p] = "await"
    /\ page_response(server, page[p], page_size(hits[p])).status = 200
    /\ page_response(server, page[p], page_size(hits[p])).body.data = <<>>
    /\ page_response(server, page[p], page_size(hits[p])).body.total > counter[p]

\* C3: a page response with an empty data array and a total above the emitted
\* count ends the traversal: the step that receives it sends no further page
\* request.
C3_EmptyPageEndsTraversal ==
    [][\A p \in Procs :
          EmptyPageWithRemaining(p)
              => pc'[p] # "await" /\ requests'[p] = requests[p]]_vars

\* C10: once a page request has met a non-2xx status, the traversal has failed
\* (or the response is still pending) with no request beyond that page and no
\* record beyond the pages before it, and the exception that leaves the
\* outermost frame is the upstream error with that status code and reason.
C10_UpstreamErrorCarriesStatus ==
    \A p \in Procs :
        (op[p] = "fetch" /\ server.mode = "error" /\ server.status \notin 200..299
         /\ Len(requests[p]) >= server.at)
            => /\ pc[p] \in {"await", "failed"}
               /\ Len(requests[p]) = server.at
               /\ Len(emitted[p]) <= (server.at - 1) * page_size(hits[p])
               /\ pc[p] = "failed" =>
                      /\ error[p].type = "PodcastException"
                      /\ error[p].text = "Failed to fetch data from API"
                      /\ error[p].status_code = server.status
                      /\ error[p].detail = <<server.status, Reason(server.status)>>

C10_Witness ==
    \E p \in Procs :
        /\ op[p] = "fetch" /\ pc[p] = "failed"
        /\ server.mode = "error" /\ server.at = 2
        /\ Len(requests[p]) = 2
        /\ Len(emitted[p]) = PAGE_SIZE
        /\ error[p].status_code = server.status

\* C20: once a traversal has sent its first page request, no later step of
\* it loads the cache file or logs in: the credential is resolved once, at
\* the top-level entry, and not between two page requests.
C20_CredentialResolvedOnce ==
    [][\A p \in Procs :
          (op[p] = "fetch" /\ pc[p] = "await" /\ Honest)
              => /\ cacheLoads' = cacheLoads
                 /\ loginCalls' = loginCalls]_vars

\* C11: once a page request has been answered with status 200 and a body that
\* is not an envelope with a total-item count and a data array, the traversal
\* ends, and ends with the parse error and no other failure.
C11_MalformedBodyIsParseError ==
    \A p \in Procs :
        (op[p] = "fetch" /\ server.mode \in MalformedShapes
         /\ Len(requests[p]) >= server.at /\ pc[p] # "await")
            => /\ pc[p] = "failed"
               /\ error[p].type = "PodcastException"
               /\ error[p].text = "Failed to parse response from API"

(***************************************************************************)
(* Properties of the credential (SpecAuth).                                *)
(***************************************************************************)
EveryoneAsked == \A p \in Procs : tokenCalls[p] >= 1

HeldExpired ==
    /\ _subscription_cache # NoneRec
    /\ _subscription_cache.subscription # NoneRec
    /\ subscription_is_expired(_subscription_cache.subscription)

\* A non-expired credential is available: in memory after a login of this
\* process, or in the cache file.
HeldActive ==
    /\ user # NoneRec
    /\ _subscription_cache # NoneRec
    /\ _subscription_cache.subscription # NoneRec
    /\ ~subscription_is_expired(_subscription_cache.subscription)

FileHasSubscription ==
    /\ read_subscription_cache(cacheFile).exc = NoExc
    /\ read_subscription_cache(cacheFile).val.subscription # NoneRec

FileActive ==
    /\ FileHasSubscription
    /\ ~subscription_is_expired(read_subscription_cache(cacheFile).val.subscription)

FileExpired ==
    /\ FileHasSubscription
    /\ subscription_is_expired(read_subscription_cache(cacheFile).val.subscription)

TokenStep(p) == tokenCalls'[p] = tokenCalls[p] + 1

\* C6: an auth_token call made while the held credential has an expired
\* subscription makes exactly one network login call, and one made while a
\* non-expired credential is available (in memory, or in the file when memory
\* holds none from a login) makes none.
C6_ExpiredTriggersOneLogin ==
    [][\A p \in Procs :
          TokenStep(p) =>
              /\ HeldExpired => loginCalls' = loginCalls + 1
              /\ (HeldActive \/ (user = NoneRec /\ FileActive))
                     => loginCalls' = loginCalls]_vars

\* C7: when login() loads an expired record from the cache file, that file is
\* deleted before the login call, so it is gone if the login then fails, and
\* no other file is removed.
C7_ExpiredCacheFileDeleted ==
    [][\A p \in Procs :
          (TokenStep(p) /\ needs_login(AuthState) /\ FileExpired)
              => /\ user' = NoneRec => cacheFile' = Absent
                 /\ cwdFile' = cwdFile]_vars

\* Loading the persisted credential fails: the file is absent or unreadable,
\* its content fails validation, or the record has no subscription.
LoadFails ==
    \/ read_subscription_cache(cacheFile).exc # NoExc
    \/ read_subscription_cache(cacheFile).val.subscription = NoneRec

AuthenticationError(exc) ==
    /\ exc.type = "PodcastException"
    /\ exc.text = "Failed to fetch subscription data from API"

\* C12: when login() runs and loading the persisted credential fails, it goes
\* on to the network login, and the only error it raises is the one of a
\* failed login call.
C12_CacheFailureNotSurfaced ==
    [][\A p \in Procs :
          (TokenStep(p) /\ needs_login(AuthState) /\ LoadFails)
              => /\ loginCalls' = loginCalls + 1
                 /\ error'[p] # NoExc => AuthenticationError(error'[p])]_vars

\* The login endpoint's response is not a 2xx response with a body that
\* decodes to a user record.
BadLoginResponse(resp) ==
    \/ resp.status \notin 200..299
    \/ resp.body.kind # "object"
    \/ model_validate_json(resp.body.profile_meta).exc # NoExc

\* C13: a login call answered with a non-2xx response or an undecodable body
\* makes login() fail with the authentication error, with nothing written to
\* the cache file, and leaves auth_token bound to log in again.
C13_FailedLoginLeavesNoToken ==
    [][\A p \in Procs :
          (TokenStep(p) /\ loginCalls' = loginCalls + 1
           /\ BadLoginResponse(loginResponse'))
              => /\ AuthenticationError(error'[p])
                 /\ cacheFile' \in {cacheFile, Absent}
                 /\ user' = NoneRec]_vars

(***************************************************************************)
(* Properties of the feed (SpecFeed).                                      *)
(***************************************************************************)
Occurrences(s, x) == Cardinality({i \in 1..Len(s) : s[i] = x})

\* C14: a rendered feed has exactly one item per stored episode, an episode
\* stored k times giving k items, and its items are in non-increasing order
\* of publish date, whatever the order in which the episodes were added.
C14_RenderedFeedSorted ==
    \A p \in Procs :
        outcome[p].kind = "ok"
            => /\ Len(rendered[p]) = Len(feed[p])
               /\ \A e \in Range(feed[p]) :
                      Occurrences(rendered[p], to_rss_item(e)) = Occurrences(feed[p], e)
               /\ \A i, j \in 1..Len(rendered[p]) :
                      i < j => rendered[p][i].pubDate >= rendered[p][j].pubDate

C14_Witness ==
    \E p \in Procs :
        /\ outcome[p].kind = "ok"
        /\ feed[p] = <<Episode(1, 1), Episode(2, 3), Episode(1, 1)>>
        /\ rendered[p] = <<to_rss_item(Episode(2, 3)), to_rss_item(Episode(1, 1)),
                           to_rss_item(Episode(1, 1))>>

(***************************************************************************)
(* Properties of the route handlers (SpecRouter).                          *)
(***************************************************************************)
\* The handler of request p has returned or raised.
Served(p) == handler[p] # NoHandler /\ outcome[p] # NoOutcome

NotFound(o) ==
    o.kind = "raise" /\ o.exc.type = "HTTPException" /\ o.exc.status_code = 404

\* C15: when the feed handler has run its episode traversal to the end for a
\* known show with N episodes, the feed holds the first min(20, N) episodes
\* if complete is false and all N if it is true.
C15_FeedSize ==
    \A p \in Procs :
        (Served(p) /\ handler[p].name \in {"rss", "rss_complete"} /\ op[p] = "fetch"
         /\ episodeServer.mode = "honest")
            => /\ Len(feed[p]) = IF handler[p].complete THEN episodeServer.n
                                 ELSE Min(FEED_LIMIT, episodeServer.n)
               /\ \A i \in 1..Len(feed[p]) : feed[p][i].id = i
               /\ Len(feed[p]) > 0 => Len(rendered[p]) = Len(feed[p])

C15_Witness ==
    \E p \in Procs :
        /\ Served(p) /\ handler[p].name = "rss" /\ ~handler[p].complete
        /\ episodeServer.mode = "honest" /\ episodeServer.n > FEED_LIMIT
        /\ outcome[p].kind = "ok"
        /\ Len(feed[p]) = FEED_LIMIT
        /\ Len(rendered[p]) = FEED_LIMIT

\* C16: with a catalog and an episode list that are served and not empty and
\* a known slug, every boundary operation completes successfully, with an
\* expired subscription as with an active one.
C16_ExpiredIsNotAnError ==
    \A p \in Procs :
        (Served(p) /\ server.n > 0 /\ episodeServer.mode = "honest"
         /\ episodeServer.n > 0
         /\ (handler[p].name \in SlugHandlers => handler[p].slug # UnknownSlug))
            => outcome[p].kind = "ok"

\* C17: a handler that takes a slug and finds it absent from the populated
\* show cache reports NotFound and nothing else, and has started no episode
\* traversal.
C17_UnknownSlugIsNotFound ==
    \A p \in Procs :
        (Served(p) /\ handler[p].name \in SlugHandlers
         /\ _podcasts # {} /\ handler[p].slug \notin _podcasts)
            => NotFound(outcome[p]) /\ op[p] # "fetch"

(***************************************************************************)
(* Properties of the credential store (SpecStore).                         *)
(***************************************************************************)
\* C18: a record written with write_subscription_cache and read back with
\* read_subscription_cache comes back equal, token secret included, whatever
\* was at the path before and whether or not its directory existed.
C18_StoreRoundTrip ==
    (result.kind = "read" /\ result.over # "unwritten")
        => /\ result.exc = NoExc
           /\ result.val = input.meta
           /\ result.val.token.secret = input.meta.token.secret

C18_Witness ==
    /\ result.kind = "read" /\ result.over = "no_dir"
    /\ result.val = input.meta
    /\ input.meta.subscription # NoneRec
    /\ input.meta.subscription.end_date = NoneInt

(***************************************************************************)
(* Properties of the episode number (SpecNumber).                          *)
(***************************************************************************)
BeginsWith(slug, prefix) ==
    Len(slug) >= Len(prefix) /\ SubSeq(slug, 1, Len(prefix)) = prefix

\* C19: number is n for a slug beginning with "ep-<n>", "Weekend" for a slug
\* beginning with "morning-weekend" and absent for every other slug; it is
\* computed without an exception for every slug.
C19_NumberOfSlug ==
    result.kind = "number"
        => IF BeginsWith(input.slug, <<"ep", "-", "12">>)
           THEN result.of.kind = "int" /\ result.of.num = 12
           ELSE IF BeginsWith(input.slug, <<"morning", "-", "weekend">>)
           THEN result.of.kind = "str" /\ result.of.text = "Weekend"
           ELSE result.of.kind = "none"

(***************************************************************************)
(* Properties of the show cache (SpecCache).                               *)
(***************************************************************************)
\* C4: with a non-empty catalog, an honest server and no traversal ended by
\* an exception, requests reading the show cache concurrently cause one
\* full-catalog fetch in total.
C4_SingleFlight ==
    (Honest /\ server.n > 0 /\ aborts = 0) => catalogFetches <= 1

\* C8: when one request alone reads the show cache again and again and no
\* traversal is ended by an exception, the full-catalog fetch is made once,
\* whatever the size of the catalog.
C8_FetchedOnce ==
    (Honest /\ aborts = 0 /\ \E q \in Procs : \A p \in Procs \ {q} : reads[p] = 0)
        => catalogFetches <= 1

\* C9: the show cache holds exactly the shows of the full-catalog fetches that
\* ran to completion: a fetch that failed or was cancelled at any page has
\* merged nothing of the pages it had received.
C9_AbortedFetchNotMerged == _podcasts = completedItems

C9_Witness ==
    \E p \in Procs :
        /\ op[p] = "podcasts"
        /\ pc[p] \in {"failed", "cancelled"}
        /\ page[p] >= 2
        /\ Len(emitted[p]) >= PAGE_SIZE
        /\ _podcasts = {}

(***************************************************************************)
(* Properties of the expiry test (SpecExpiry).                             *)
(***************************************************************************)
\* The end marker of a subscription document: its end date, or its next
\* payment when the end date is null or zero.
EffectiveEnd(sub) ==
    IF sub.end_date = JsonNull \/ sub.end_date = 0
    THEN sub.next_payment
    ELSE sub.end_date

\* Whether the client holds a subscription with an end marker.
HasEndMarker(in) == in.held /\ in.doc.subscription.kind = "object"

\* C21: is_expired is true exactly when the client holds no subscription with
\* an end marker, or the end marker (the end date, or the next payment when
\* the raw end date is null or zero) is strictly before the time of the
\* evaluation; an end marker equal to that time is not expired.
C21_ExpiredIffMarkerPassed ==
    result.kind = "expired" =>
        (result.value <=>
             (~HasEndMarker(input) \/ EffectiveEnd(input.doc.subscription) < result.at))

\* is_expired was evaluated at the very time of the end marker, which is the
\* next payment because the raw end date is zero, and said "not expired".
C21_Witness ==
    /\ result.kind = "expired"
    /\ HasEndMarker(input)
    /\ input.doc.subscription.end_date = 0
    /\ input.doc.subscription.next_payment = result.at
    /\ ~result.value


(***************************************************************************)
(* Properties of the stored episode list (SpecFrame).                      *)
(***************************************************************************)
\* The feed of request p has just been rendered and nothing was added since.
JustRendered(p) == outcome[p].kind = "ok" /\ outcome[p].current

\* C22: the stored episode list changes only by add_episode, which puts the
\* episode at the end and keeps the earlier entries in their order; a
\* rendering (sorted_episodes, to_rss, to_rss_string) leaves the list as it
\* was, and a second rendering gives the document of the first.
C22_EpisodesChangeOnlyByAppend ==
    [][\A p \in Procs :
           /\ feed'[p] # feed[p]
                  => /\ Len(feed'[p]) = Len(feed[p]) + 1
                     /\ SubSeq(feed'[p], 1, Len(feed[p])) = feed[p]
                     /\ rendered'[p] = rendered[p]
                     /\ ~JustRendered(p)'
           /\ JustRendered(p)' => feed'[p] = feed[p]
           /\ JustRendered(p) /\ JustRendered(p)' => rendered'[p] = rendered[p]]_vars

\* A feed whose episodes are not in date order has been rendered twice in a
\* row and is stored as it was built.
C22_Witness ==
    \E p \in Procs :
        /\ JustRendered(p)
        /\ outcome[p].again
        /\ feed[p] = <<Episode(1, 1), Episode(2, 3), Episode(1, 2)>>
        /\ rendered[p] = <<to_rss_item(Episode(2, 3)), to_rss_item(Episode(1, 2)),
                           to_rss_item(Episode(1, 1))>>

(***************************************************************************)
(* Properties of the limit (SpecLimit).                                    *)
(***************************************************************************)
\* C23: with a limit L >= 1, whatever the length of the pages and the total
\* the server reports, a traversal never emits more than L records, and when
\* it has emitted L it has ended, having requested the pages up to the one
\* that carried the L-th record and none after it.
C23_LimitNeverExceeded ==
    \A p \in Procs :
        op[p] = "fetch" /\ hits[p] >= 1
            => /\ Len(emitted[p]) <= hits[p]
               /\ Len(emitted[p]) = hits[p]
                      => /\ pc[p] = "done"
                         /\ Len(requests[p]) = Ceil(hits[p], server.at)

\* A traversal with limit 3 over pages of 2 records, the total reported
\* being larger, has ended after its second page with 3 records.
C23_Witness ==
    \E p \in Procs :
        /\ op[p] = "fetch"
        /\ pc[p] = "done"
        /\ hits[p] = 3
        /\ server.mode = "sloppy" /\ server.at = 2 /\ server.n > 3
        /\ Len(requests[p]) = 2
        /\ emitted[p] = <<1, 2, 3>>

(***************************************************************************)
(* Properties of the chain of page requests (SpecChain).                   *)
(***************************************************************************)
\* The records of pages 1..k, in server order.
PagesUpTo(srv, k, size) ==
    LET acc[i \in 0..k] ==
            IF i = 0 THEN <<>> ELSE acc[i - 1] \o page_response(srv, i, size).body.data
    IN  acc[k]

\* The page size a traversal with the given limit asks for.
AskedSize(h) == IF h = NoneInt \/ h = 0 THEN PAGE_SIZE ELSE h

\* What traversal p has emitted, given the records of the pages before its
\* last request and those up to it: while the request is pending, every
\* record of the earlier pages and nothing else; afterwards, these and some
\* of the last page.
EmittedInOrder(p, before, upto) ==
    /\ counter[p] = Len(emitted[p])
    /\ pc[p] = "await" => emitted[p] = before
    /\ pc[p] = "done" => /\ Len(before) <= Len(emitted[p])
                         /\ Len(emitted[p]) <= Len(upto)
                         /\ emitted[p] = SubSeq(upto, 1, Len(emitted[p]))

\* The i-th request of traversal p is for page i, with the page size of the
\* traversal; a pending request is the last one made.
Chained(p) ==
    /\ \A i \in 1..Len(requests[p]) :
           /\ requests[p][i].pg = i
           /\ requests[p][i].hits = AskedSize(hits[p])
    /\ pc[p] = "await" => page[p] = Len(requests[p])
    /\ Len(requests[p]) >= 1
    /\ EmittedInOrder(p, PagesUpTo(server, Len(requests[p]) - 1, AskedSize(hits[p])),
                      PagesUpTo(server, Len(requests[p]), AskedSize(hits[p])))

\* The position of traversal p.
Position(p) == <<pc[p], hits[p], page[p], counter[p], emitted[p], requests[p]>>

\* C24: the requests of a traversal are for pages 1, 2, 3, ... with one page
\* size, each made when every record of the pages before it has been
\* emitted and no earlier request is pending; of two traversals running
\* concurrently each starts at page 1 with nothing emitted, and a step of
\* one leaves the page index, the count and the requests of the other as
\* they were.
C24_SequentialChain ==
    /\ [](\A p \in Procs : op[p] = "fetch" => Chained(p))
    /\ [][\A p, q \in Procs :
              p # q /\ Position(p)' # Position(p) => Position(q)' = Position(q)]_vars

\* Two traversals of a catalog of more than one page are under way at once:
\* one waits for page 2 with the whole of page 1 emitted, the other waits
\* for page 1 with nothing emitted.
C24_Witness ==
    /\ op[1] = "fetch" /\ op[2] = "fetch"
    /\ Honest /\ server.n > PAGE_SIZE
    /\ pc[1] = "await" /\ page[1] = 2 /\ emitted[1] = FirstItems(PAGE_SIZE)
    /\ pc[2] = "await" /\ page[2] = 1 /\ emitted[2] = <<>>

====
